---- MODULE Spec2Model ----
(***************************************************************************)
(* Model of droidproperties.py: the droidproperties record (clear_fields)  *)
(* and the Exodus tracker import (import_exodus_trackers).                  *)
(*                                                                         *)
(* Text that the code inspects character by character (tracker names,      *)
(* code signatures, kit section names and patterns) is a sequence of       *)
(* one-character strings.  Dictionary keys of the smali, wide and arm      *)
(* sub-records and all dictionary values are plain strings; a Python value *)
(* is written as its repr ("False", "None", "[]", "0").  The kit catalog    *)
(* file is text: the sequence of its lines and whether the last one ends   *)
(* with a newline.                                                          *)
(***************************************************************************)
EXTENDS Integers, Sequences, FiniteSets, TLC

\* ------------------------------------------------------------------ bounds
NumRecords == 2      \* droidproperties instances alive at once
NumImporters == 1    \* instances used while trackers are imported
MaxFeedLen == 2      \* trackers in one answer of the feed
MaxSections == 2     \* sections the kit catalog file may grow to
MaxDirty == 1        \* entries of the shared sub-records set at once
MaxPopulated == 1    \* fields populated at once between two resets

\* ------------------------------------------------------- character classes
UpperCase == <<"A","B","C","D","E","F","G","H","I","J","K","L","M",
               "N","O","P","Q","R","S","T","U","V","W","X","Y","Z">>

LowerCase == <<"a","b","c","d","e","f","g","h","i","j","k","l","m",
               "n","o","p","q","r","s","t","u","v","w","x","y","z">>

Digits == {"0","1","2","3","4","5","6","7","8","9"}

Range(s) == {s[i] : i \in DOMAIN s}

\* the class [a-zA-Z0-9] of the name regex
NameChars == Range(UpperCase) \cup Range(LowerCase) \cup Digits

\* the class [a-zA-Z0-9/_] of the fragment regex
SigChars == NameChars \cup {"/", "_"}

\* str.lower() on one character
LowerChar(c) ==
    IF \E i \in DOMAIN UpperCase : UpperCase[i] = c
    THEN LowerCase[CHOOSE i \in DOMAIN UpperCase : UpperCase[i] = c]
    ELSE c

\* ------------------------------------------------------ string operations
\* re.sub(pattern of one character class, '', s): keep the characters of keep
KeepChars(s, keep) == SelectSeq(s, LAMBDA c : c \in keep)

\* re.sub('\.\|', '|', s): every "." standing directly before "|" is removed
RECURSIVE SubDotPipe(_)
SubDotPipe(s) ==
    IF s = <<>> THEN <<>>
    ELSE IF Len(s) >= 2 /\ s[1] = "." /\ s[2] = "|"
         THEN <<"|">> \o SubDotPipe(SubSeq(s, 3, Len(s)))
         ELSE <<s[1]>> \o SubDotPipe(Tail(s))

\* s.rstrip('.')
RECURSIVE RStripDot(_)
RStripDot(s) ==
    IF s # <<>> /\ s[Len(s)] = "." THEN RStripDot(SubSeq(s, 1, Len(s) - 1))
    ELSE s

\* s.lstrip('.')
RECURSIVE LStripDot(_)
LStripDot(s) ==
    IF s # <<>> /\ s[1] = "." THEN LStripDot(Tail(s)) ELSE s

\* s.replace('.', '/')
ReplaceDots(s) == [i \in DOMAIN s |-> IF s[i] = "." THEN "/" ELSE s[i]]

\* s.replace('\/', '/'): a backslash standing directly before "/" is removed
RECURSIVE ReplaceEscapedSlash(_)
ReplaceEscapedSlash(s) ==
    IF s = <<>> THEN <<>>
    ELSE IF Len(s) >= 2 /\ s[1] = "\\" /\ s[2] = "/"
         THEN <<"/">> \o ReplaceEscapedSlash(SubSeq(s, 3, Len(s)))
         ELSE <<s[1]>> \o ReplaceEscapedSlash(Tail(s))

\* s.split('|'): always at least one fragment, empty fragments kept
RECURSIVE SplitPipe(_)
SplitPipe(s) ==
    IF \A i \in DOMAIN s : s[i] # "|" THEN <<s>>
    ELSE LET p == CHOOSE i \in DOMAIN s :
                      s[i] = "|" /\ \A j \in 1..(i - 1) : s[j] # "|"
         IN  <<SubSeq(s, 1, p - 1)>> \o SplitPipe(SubSeq(s, p + 1, Len(s)))

\* '|'.join(frags)
RECURSIVE JoinPipe(_)
JoinPipe(frags) ==
    IF frags = <<>> THEN <<>>
    ELSE IF Len(frags) = 1 THEN frags[1]
    ELSE frags[1] \o <<"|">> \o JoinPipe(Tail(frags))

\* line 169: the fragment list of a code signature
Canonicalize(code_signature) ==
    SplitPipe(ReplaceEscapedSlash(ReplaceDots(LStripDot(RStripDot(
        SubDotPipe(code_signature))))))

\* line 171: a fragment is skipped when nothing of [a-zA-Z0-9/_] is left of it
IsNoise(sig) == Len(KeepChars(sig, SigChars)) = 0

\* line 178: the section name made of a tracker's display name
SanitizeName(name) ==
    LET kept == KeepChars(name, NameChars)
    IN  [i \in DOMAIN kept |-> LowerChar(kept[i])]

\* ------------------------------------------------- text of a catalog file
\* Only the section names of the smali, wide and arm catalogs are read by
\* this module, so those files are sequences of names.  The kit catalog file
\* is written by the import and is kept as text: lines is the sequence of its
\* lines, eol tells whether the last line ends with a newline.  A line is a
\* section header "[name]", an option "key = value" or a blank line.
Header(name) == [kind |-> "header", name |-> name]

Option(key, value) == [kind |-> "option", key |-> key, value |-> value]

Blank == [kind |-> "blank"]

TextFile(lines, eol) == [lines |-> lines, eol |-> eol]

\* configparser.DEFAULTSECT
DefaultSect == <<"D", "E", "F", "A", "U", "L", "T">>

\* the text of a last line that has no newline, directly followed by the
\* text "[name]" of a header
Glue(line, header) ==
    IF line.kind = "option"
    THEN Option(line.key, line.value \o <<"[">> \o header.name \o <<"]">>)
    ELSE Header(line.name \o <<"]", "[">> \o header.name)

\* open(file, 'a') and the write of text, a sequence of whole lines that
\* starts with a header
AppendText(file, text) ==
    IF text = <<>> THEN file
    ELSE IF file.eol \/ file.lines = <<>>
    THEN TextFile(file.lines \o text, TRUE)
    ELSE TextFile(SubSeq(file.lines, 1, Len(file.lines) - 1)
                  \o <<Glue(file.lines[Len(file.lines)], text[1])>>
                  \o Tail(text), TRUE)

\* the blocks of a text: every header line opens one, the option lines that
\* follow are its options in order of appearance
RECURSIVE Blocks(_)
Blocks(lines) ==
    IF lines = <<>> THEN <<>>
    ELSE LET before == Blocks(SubSeq(lines, 1, Len(lines) - 1))
             line == lines[Len(lines)]
         IN  IF line.kind = "header"
             THEN Append(before, [name |-> line.name, options |-> <<>>])
             ELSE IF line.kind = "option" /\ before # <<>>
             THEN [before EXCEPT ![Len(before)].options = Append(@, line)]
             ELSE before

HasOption(options, key) == \E i \in DOMAIN options : options[i].key = key

\* the value an option has after all its assignments
OptionValue(options, key) ==
    options[CHOOSE i \in DOMAIN options :
                /\ options[i].key = key
                /\ \A j \in DOMAIN options : options[j].key = key => j <= i].value

\* ------------------------------------------- droidconfig (pattern catalog)
\* the options of the DEFAULT blocks: fallbacks of every section
Fallbacks(blocks) ==
    LET RECURSIVE all(_)
        all(n) == IF n = 0 THEN <<>>
                  ELSE all(n - 1) \o (IF blocks[n].name = DefaultSect
                                      THEN blocks[n].options ELSE <<>>)
    IN  all(Len(blocks))

\* loading fails (ConfigError) on a header without a name, a duplicate
\* section name, an option given twice in a block, a section without pattern
Loadable(file) ==
    LET blocks == Blocks(file.lines)
    IN  /\ \A i \in DOMAIN blocks : blocks[i].name # <<>>
        /\ \A i, j \in DOMAIN blocks :
               (blocks[i].name = blocks[j].name /\ blocks[i].name # DefaultSect)
               => i = j
        /\ \A i \in DOMAIN blocks :
               \A m, n \in DOMAIN blocks[i].options :
                   blocks[i].options[m].key = blocks[i].options[n].key => m = n
        /\ \A i \in DOMAIN blocks :
               \/ blocks[i].name = DefaultSect
               \/ HasOption(blocks[i].options \o Fallbacks(blocks), "pattern")

\* droidconfig.droidconfig(file) of a loadable file: the sections in source
\* order, each with its pattern; a DEFAULT block is no section
Load(file) ==
    LET blocks == Blocks(file.lines)
        own == SelectSeq(blocks, LAMBDA b : b.name # DefaultSect)
    IN  [i \in DOMAIN own |->
            [name |-> own[i].name,
             pattern |-> IF HasOption(own[i].options, "pattern")
                         THEN OptionValue(own[i].options, "pattern")
                         ELSE OptionValue(Fallbacks(blocks), "pattern")]]

\* droidconfig.get_sections() of a loaded kit catalog
get_sections(cfg) == [i \in DOMAIN cfg |-> cfg[i].name]

\* droidconfig.is_pattern_present(sig): sig is one of the "|"-separated
\* fragments registered under some section
is_pattern_present(cfg, sig) ==
    \E i \in DOMAIN cfg : sig \in Range(SplitPipe(cfg[i].pattern))

\* droidconfig.get_pattern(name) returns the pattern of a section the catalog
\* has and fails (NotFound) otherwise; only whether it fails is used here
has_section(cfg, name) == \E i \in DOMAIN cfg : cfg[i].name = name

\* ----------------------------------------------------------- dictionaries
EmptyDict == <<>>

Put(d, k, v) == [x \in DOMAIN d \cup {k} |-> IF x = k THEN v ELSE d[x]]

\* for section in sections: d[section] = False
RECURSIVE SetSections(_, _)
SetSections(d, sections) ==
    IF sections = <<>> THEN d
    ELSE SetSections(Put(d, sections[1], "False"), Tail(sections))

\* dict.clear()
DictClear(d) == EmptyDict

\* ------------------------------------------------------------- the record
VARIABLES
    smaliFile, wideFile, armFile,  \* catalog files read at every reset
    kitFile,                       \* the kit catalog file (config.KIT_CONFIGFILE)
    smali, wide, arm, kits,        \* the class attributes of droidproperties
    recs,                          \* the droidproperties instances
    imp,                           \* the import in progress, if any
    exited,                        \* quit() was called
    last                           \* the operation just performed

vars == <<smaliFile, wideFile, armFile, kitFile, smali, wide, arm, kits,
          recs, imp, exited, last>>

Records == 1..NumRecords

\* the instances an administrative session (resets and imports) works with
Importers == 1..NumImporters

ScalarFields == {"file_nb_classes", "file_nb_dir", "file_size", "file_small",
                 "filetype", "file_innerzips"}

\* lines 69-74
DefaultScalars ==
    [file_nb_classes |-> 0, file_nb_dir |-> 0, file_size |-> 0,
     file_small |-> FALSE, filetype |-> "UNKNOWN", file_innerzips |-> FALSE]

\* lines 77-88
DefaultCertificate ==
    [av |-> "False", algo |-> "None", debug |-> "False", dev |-> "False",
     famous |-> "False", serialno |-> "None", country |-> "unknown",
     owner |-> "None", timestamp |-> "None", year |-> "0",
     unknown_country |-> "False"]

\* lines 91-106
DefaultManifest ==
    [activities |-> "[]", libraries |-> "[]",
     listens_incoming_sms |-> "False", listens_outgoing_call |-> "False",
     maxSDK |-> "0", main_activity |-> "None", minSDK |-> "0",
     package_name |-> "None", permissions |-> "[]", providers |-> "[]",
     receivers |-> "[]", services |-> "[]", swf |-> "False",
     targetSDK |-> "0"]

\* lines 135-142
DefaultDex ==
    [magic |-> "0", odex |-> "False", magic_unknown |-> "False",
     bad_sha1 |-> "False", bad_adler32 |-> "False", big_header |-> "False",
     thuxnder |-> "False"]

\* lines 109-115: smali.clear(), one flag per section, then the two extras
ResetSmali(d, sections) ==
    Put(Put(SetSections(DictClear(d), sections), "packed", "False"),
        "multidex", "[]")

\* lines 118-126: wide.clear(), the five extras, then one flag per section
ResetWide(d, sections) ==
    SetSections(
        Put(Put(Put(Put(Put(DictClear(d), "app_name", "None"),
            "phonenumbers", "[]"), "urls", "[]"), "base64_strings", "[]"),
            "apk_zip_url", "False"),
        sections)

\* lines 129-132
ResetArm(d, sections) == SetSections(DictClear(d), sections)

\* lines 145-149 without line 145: the flags are set on the uncleared dictionary
ResetKitsUncleared(d, sections) == SetSections(d, sections)

\* lines 145-149, after the catalog is loaded
ResetKits(d, sections) == SetSections(DictClear(d), sections)

\* a slot of recs that holds no instance yet
NoRecord ==
    [exists |-> FALSE, scalars |-> DefaultScalars,
     certificate |-> EmptyDict, manifest |-> EmptyDict, dex |-> EmptyDict,
     kitsconfig |-> <<>>]

\* lines 69-106 and 134-142: the instance attributes clear_fields assigns
\* before the kit catalog is loaded
ClearedInstance(rec) ==
    [rec EXCEPT !.scalars = DefaultScalars,
                !.certificate = DefaultCertificate,
                !.manifest = DefaultManifest,
                !.dex = DefaultDex]

\* lines 108-149 of clear_fields: the four class-level dictionaries.  The
\* kit catalog is the last one loaded: when its load fails (line 146) kits
\* has been cleared and is not filled.
clear_shared ==
    /\ smali' = ResetSmali(smali, smaliFile)
    /\ wide' = ResetWide(wide, wideFile)
    /\ arm' = ResetArm(arm, armFile)
    /\ kits' = IF Loadable(kitFile)
               THEN ResetKits(kits, get_sections(Load(kitFile)))
               ELSE DictClear(kits)

\* the instance after clear_fields: when the kit catalog fails to load, the
\* attributes assigned before line 146 are set and kitsconfig is as it was
\* (a constructor that raises leaves no instance)
Cleared(rec) ==
    IF Loadable(kitFile)
    THEN [ClearedInstance(rec) EXCEPT !.exists = TRUE,
                                      !.kitsconfig = Load(kitFile)]
    ELSE IF rec.exists THEN ClearedInstance(rec) ELSE rec

\* lines 67-149
clear_fields(r) ==
    /\ clear_shared
    /\ recs' = [recs EXCEPT ![r] = Cleared(recs[r])]

\* ------------------------------------------------ import_exodus_trackers
\* f'{tracker["name"]} (from ETIP Exodus Privacy list)'
DescriptionSuffix == <<" (from ETIP Exodus Privacy list)">>

\* line 166: configparser.ConfigParser(): the options of its DEFAULT section
\* and its sections in order of creation, each with its options in order
EmptyConfig == [defaults |-> <<>>, sections |-> <<>>]

\* options[key] = value
SetOption(options, key, value) ==
    IF HasOption(options, key)
    THEN [i \in DOMAIN options |->
            IF options[i].key = key THEN Option(key, value) ELSE options[i]]
    ELSE Append(options, Option(key, value))

\* line 187, config[name] = {}: a section of that name is emptied in place,
\* a new one goes to the end (also when name is the empty string)
SetSection(config, name) ==
    LET sections == config.sections
        empty == [name |-> name, options |-> <<>>]
    IN  IF \E i \in DOMAIN sections : sections[i].name = name
        THEN [config EXCEPT !.sections =
                 [i \in DOMAIN sections |->
                     IF sections[i].name = name THEN empty ELSE sections[i]]]
        ELSE [config EXCEPT !.sections = Append(sections, empty)]

\* lines 188-189, config[name][key] = value once the value is accepted:
\* RawConfigParser.set puts the option of a section without a name into the
\* DEFAULT section
SetValue(config, name, key, value) ==
    LET sections == config.sections
    IN  IF name = <<>>
        THEN [config EXCEPT !.defaults = SetOption(@, key, value)]
        ELSE [config EXCEPT !.sections =
                 [i \in DOMAIN sections |->
                     IF sections[i].name = name
                     THEN [sections[i] EXCEPT
                              !.options = SetOption(@, key, value)]
                     ELSE sections[i]]]

\* value.replace('%%', '') of BasicInterpolation.before_set
RECURSIVE DropEscapedPercent(_)
DropEscapedPercent(s) ==
    IF s = <<>> THEN <<>>
    ELSE IF Len(s) >= 2 /\ s[1] = "%" /\ s[2] = "%"
         THEN DropEscapedPercent(SubSeq(s, 3, Len(s)))
         ELSE <<s[1]>> \o DropEscapedPercent(Tail(s))

\* length of the match of %\(([^)]+)\)s at the head of s, 0 when there is none
KeyRefLen(s) ==
    IF Len(s) >= 5 /\ s[1] = "%" /\ s[2] = "(" /\ s[3] # ")"
       /\ \E j \in 4..Len(s) : s[j] = ")"
    THEN LET close == CHOOSE j \in 4..Len(s) :
                          s[j] = ")" /\ \A k \in 4..(j - 1) : s[k] # ")"
         IN  IF close < Len(s) /\ s[close + 1] = "s" THEN close + 1 ELSE 0
    ELSE 0

\* _KEYCRE.sub('', s) of BasicInterpolation.before_set
RECURSIVE DropKeyRefs(_)
DropKeyRefs(s) ==
    IF s = <<>> THEN <<>>
    ELSE IF KeyRefLen(s) > 0
         THEN DropKeyRefs(SubSeq(s, KeyRefLen(s) + 1, Len(s)))
         ELSE <<s[1]>> \o DropKeyRefs(Tail(s))

\* lines 188-189: ConfigParser refuses (ValueError) a value that holds a "%"
\* outside of "%%" and "%(key)s"
InterpolationRefused(value) ==
    "%" \in Range(DropKeyRefs(DropEscapedPercent(value)))

\* line 194, config.write(configfile): the DEFAULT section when it has
\* options, then every section; a header, the options, a blank line
WriteSection(name, options) == <<Header(name)>> \o options \o <<Blank>>

Write(config) ==
    LET RECURSIVE all(_)
        all(n) == IF n = 0 THEN <<>>
                  ELSE all(n - 1) \o WriteSection(config.sections[n].name,
                                                  config.sections[n].options)
    IN  (IF config.defaults # <<>>
         THEN WriteSection(DefaultSect, config.defaults) ELSE <<>>)
        \o all(Len(config.sections))

\* lines 178 and 189: the name and the pattern of the section a tracker that
\* is taken as new is meant to get
NewSection(tracker, code_signature) ==
    [name |-> SanitizeName(tracker.name),
     pattern |-> JoinPipe(code_signature)]

\* lines 170-172: the position of the first fragment that is not skipped,
\* 0 when every fragment is
FirstUsable(code_signature) ==
    IF \A i \in DOMAIN code_signature : IsNoise(code_signature[i]) THEN 0
    ELSE CHOOSE i \in DOMAIN code_signature :
             /\ ~IsNoise(code_signature[i])
             /\ \A j \in 1..(i - 1) : IsNoise(code_signature[j])

\* the state of the loop of lines 167-190: config is the ConfigParser being
\* filled, accepted the trackers that reached line 186 ("Adding Exodus
\* Tracker"), in order
LoopState(config, accepted, err) ==
    [config |-> config, accepted |-> accepted, err |-> err]

\* lines 168-190: one iteration of "for tracker in j".  kitsconfig is the
\* catalog this instance loaded at its last clear_fields, kitkeys the keys of
\* self.kits.  A tracker without a code_signature raises KeyError at line
\* 169, one without a name at line 178 once a fragment is usable and not
\* registered; get_pattern at line 182 raises for a name that is a key of
\* kits but no section of kitsconfig; lines 188 and 189 raise ValueError for
\* a value ConfigParser refuses, after line 187 created the section.
ProcessTracker(loop, kitsconfig, kitkeys, tracker) ==
    IF "code_signature" \notin DOMAIN tracker
    THEN LoopState(loop.config, loop.accepted, "KeyError")
    ELSE
    LET code_signature == Canonicalize(tracker.code_signature)
        first == FirstUsable(code_signature)
    IN  IF first = 0 THEN loop
        ELSE IF is_pattern_present(kitsconfig, code_signature[first])
        THEN loop
        ELSE IF "name" \notin DOMAIN tracker
        THEN LoopState(loop.config, loop.accepted, "KeyError")
        ELSE
        LET name == SanitizeName(tracker.name)
            description == tracker.name \o DescriptionSuffix
            pattern == JoinPipe(code_signature)
            accepted == Append(loop.accepted,
                               NewSection(tracker, code_signature))
            created == SetSection(loop.config, name)
            described == SetValue(created, name, "description", description)
        IN  IF name \in kitkeys
            THEN IF has_section(kitsconfig, name) THEN loop
                 ELSE LoopState(loop.config, loop.accepted, "NoSectionError")
            ELSE IF InterpolationRefused(description)
            THEN LoopState(created, accepted, "ValueError")
            ELSE IF InterpolationRefused(pattern)
            THEN LoopState(described, accepted, "ValueError")
            ELSE LoopState(SetValue(described, name, "pattern", pattern),
                           accepted, "none")

\* lines 191-194 reached also when the loop raised: what was staged is written
WrittenDespiteError(err, config) == Write(config)

\* lines 191-194: the text appended to the kit catalog file.  The file is
\* opened and written after the loop, so only when the loop raised nothing.
WrittenText(err, config) ==
    IF err = "none" THEN Write(config) ELSE <<>>

\* ------------------------------------------------------------------ inputs
Foo == <<"F", "o", "o">>
foo == <<"f", "o", "o">>
Bar == <<"B", "a", "r">>

\* the trackers a feed is made of: two names that differ in case only, a
\* signature with an empty fragment, one whose second fragment is registered
\* in a catalog of KitFiles, signatures without a letter or a digit, a name
\* without one, a name and a signature with a "%", a tracker without a name
\* and one without a code_signature
Trackers ==
    { [name |-> Foo, code_signature |-> <<"a", ".", "b">>],
      [name |-> foo, code_signature |-> <<"c", ".", "d", "|">>],
      [name |-> Bar,
       code_signature |-> <<"c", ".", "d", ".", "|", "a", ".", "b", ".">>],
      [name |-> Bar, code_signature |-> <<".", "-", ".", "-", ".">>],
      [name |-> Bar, code_signature |-> <<"-">>],
      [name |-> <<"!">>, code_signature |-> <<"a", ".", "b">>],
      [name |-> <<"B", "%">>, code_signature |-> <<"a", ".", "b">>],
      [name |-> Bar, code_signature |-> <<"a", ".", "%", "b">>],
      [code_signature |-> <<"a", ".", "b">>],
      [name |-> Foo] }

\* what the feed answers: a status code and whether json.loads accepts the
\* text; the trackers of an accepted text are read one by one
StatusCodes == {200, 404}

\* the block of a section kept by hand, without the newline of its last line
LocalSection(name, pattern) ==
    <<Header(name), Option("description", <<"local">>),
      Option("pattern", pattern)>>

lib == <<"l", "i", "b">>

\* kit catalog files the program starts with: they load and their section
\* names are unique; the last one does not end with a newline
KitFiles ==
    { TextFile(<<>>, TRUE),
      TextFile(LocalSection(lib, <<"a", "/", "b", "|", "x", "/", "y">>), TRUE),
      TextFile(LocalSection(foo, <<"x", "/", "y">>), TRUE),
      TextFile(LocalSection(lib, <<"a", "/", "b", "|", "x", "/", "y">>), FALSE) }

SmaliFiles == {<<"s1", "packed">>}
WideFiles == {<<"w1">>, <<"w1", "urls">>}
ArmFiles == {<<"a1">>}

\* keys external code may set in a shared sub-record beside those it holds
StrayKeys == {"stray"}
StrayKitKeys == {foo}

\* ----------------------------------------------------------------- actions
\* the operation just performed: before is the kit catalog file it found
Did(op, r, outcome, accepted, before) ==
    [op |-> op, rec |-> r, outcome |-> outcome, accepted |-> accepted,
     before |-> before]

Idle ==
    [pc |-> "idle", rec |-> 0, quit |-> FALSE, n |-> 0,
     loop |-> LoopState(EmptyConfig, <<>>, "none")]

LoadOutcome == IF Loadable(kitFile) THEN "ok" ELSE "ConfigError"

\* the catalog files are there before the program starts; nothing else is
Start ==
    /\ smaliFile \in SmaliFiles
    /\ armFile \in ArmFiles
    /\ kitFile \in KitFiles
    /\ smali = EmptyDict /\ wide = EmptyDict
    /\ arm = EmptyDict /\ kits = EmptyDict
    /\ recs = [r \in Records |-> NoRecord]
    /\ imp = Idle
    /\ exited = FALSE
    /\ last = Did("init", 0, "ok", <<>>, kitFile)

Init == Start /\ wideFile = <<"w1", "urls">>

InitRecords == Start /\ wideFile \in WideFiles

Ready == ~exited /\ imp.pc = "idle"

\* droidproperties(config, ..., import_exodus=False): lines 56-65
Construct(r) ==
    /\ Ready /\ ~recs[r].exists
    /\ clear_fields(r)
    /\ last' = Did("construct", r, LoadOutcome, <<>>, kitFile)
    /\ UNCHANGED <<smaliFile, wideFile, armFile, kitFile, imp, exited>>

\* clear_fields() called on an instance built with import_exodus=False
Reset(r) ==
    /\ Ready /\ recs[r].exists
    /\ clear_fields(r)
    /\ last' = Did("reset", r, LoadOutcome, <<>>, kitFile)
    /\ UNCHANGED <<smaliFile, wideFile, armFile, kitFile, imp, exited>>

\* lines 160-166: the request and the parse of its answer.  A refused or
\* unparsable answer ends the call; otherwise the loop starts.
Fetch(r, status_code, valid_json, quit) ==
    IF status_code # 200
    THEN /\ last' = Did("import", r, "http_error", <<>>, kitFile)
         /\ imp' = Idle
         /\ exited' = quit
    ELSE IF ~valid_json
    THEN /\ last' = Did("import", r, "JSONDecodeError", <<>>, kitFile)
         /\ imp' = Idle
         /\ UNCHANGED exited
    ELSE /\ last' = Did("fetch", r, "ok", <<>>, kitFile)
         /\ imp' = [Idle EXCEPT !.pc = "loop", !.rec = r, !.quit = quit]
         /\ UNCHANGED exited

\* import_exodus_trackers() called on an instance
Import(r, status_code, valid_json) ==
    /\ Ready /\ recs[r].exists
    /\ Fetch(r, status_code, valid_json, FALSE)
    /\ UNCHANGED <<smaliFile, wideFile, armFile, kitFile, smali, wide, arm,
                   kits, recs>>

\* droidproperties(config, ..., import_exodus=True): lines 56-65 and 151-153,
\* clear_fields, then the import, then quit().  An exception leaves the
\* constructor without an instance.
ConstructImportMode(r, status_code, valid_json) ==
    /\ Ready /\ ~recs[r].exists
    /\ IF ~Loadable(kitFile)
       THEN /\ clear_fields(r)
            /\ last' = Did("construct", r, "ConfigError", <<>>, kitFile)
            /\ UNCHANGED <<imp, exited>>
       ELSE /\ Fetch(r, status_code, valid_json, TRUE)
            /\ IF status_code = 200 /\ ~valid_json
               THEN clear_shared /\ UNCHANGED recs
               ELSE clear_fields(r)
    /\ UNCHANGED <<smaliFile, wideFile, armFile, kitFile>>

\* header lines of a text
NumSections(lines) ==
    Cardinality({i \in DOMAIN lines : lines[i].kind = "header"})

\* lines 167-190: the loop reads the next tracker of the feed
ImportTracker(tracker) ==
    /\ ~exited /\ imp.pc = "loop" /\ imp.n < MaxFeedLen
    /\ LET new == ProcessTracker(imp.loop, recs[imp.rec].kitsconfig,
                                 DOMAIN kits, tracker)
       IN  /\ NumSections(kitFile.lines) + NumSections(Write(new.config))
                  <= MaxSections
           /\ IF new.err = "none"
              THEN /\ imp' = [imp EXCEPT !.loop = new, !.n = @ + 1]
                   /\ UNCHANGED <<kitFile, recs, last>>
              ELSE /\ kitFile' = AppendText(kitFile,
                                            WrittenText(new.err, new.config))
                   /\ last' = Did("import", imp.rec, new.err, new.accepted,
                                  kitFile)
                   /\ imp' = Idle
                   /\ recs' = IF imp.quit
                              THEN [recs EXCEPT ![imp.rec] = NoRecord]
                              ELSE recs
    /\ UNCHANGED <<smaliFile, wideFile, armFile, smali, wide, arm, kits,
                   exited>>

\* lines 191-194, 153: the feed is exhausted, the sections are appended to
\* the kit catalog file; in import mode quit() follows
ImportEnd ==
    /\ ~exited /\ imp.pc = "loop"
    /\ kitFile' = AppendText(kitFile,
                             WrittenText(imp.loop.err, imp.loop.config))
    /\ last' = Did("import", imp.rec, "ok", imp.loop.accepted, kitFile)
    /\ imp' = Idle
    /\ exited' = imp.quit
    /\ UNCHANGED <<smaliFile, wideFile, armFile, smali, wide, arm, kits, recs>>

\* external code (the analysis) sets an entry of a sub-record through
\* instance r: r.smali[key] = True and the like.  The four dictionaries are
\* class attributes, so r.smali is the one dictionary every instance has.
SetShared(r, which, key) ==
    /\ Ready /\ recs[r].exists
    /\ \/ /\ which = "smali" /\ key \in DOMAIN smali \cup StrayKeys
          /\ smali' = Put(smali, key, "True")
          /\ UNCHANGED <<wide, arm, kits>>
       \/ /\ which = "wide" /\ key \in DOMAIN wide \cup StrayKeys
          /\ wide' = Put(wide, key, "True")
          /\ UNCHANGED <<smali, arm, kits>>
       \/ /\ which = "arm" /\ key \in DOMAIN arm \cup StrayKeys
          /\ arm' = Put(arm, key, "True")
          /\ UNCHANGED <<smali, wide, kits>>
    /\ last' = Did("set", r, "ok", <<>>, kitFile)
    /\ UNCHANGED <<smaliFile, wideFile, armFile, kitFile, recs, imp, exited>>

SetKit(r, key) ==
    /\ Ready /\ recs[r].exists
    /\ key \in DOMAIN kits \cup StrayKitKeys
    /\ kits' = Put(kits, key, "True")
    /\ last' = Did("set", r, "ok", <<>>, kitFile)
    /\ UNCHANGED <<smaliFile, wideFile, armFile, kitFile, smali, wide, arm,
                   recs, imp, exited>>

\* number of entries of the shared sub-records that external code has set
DirtyShared ==
    Cardinality({k \in DOMAIN smali : smali[k] = "True"})
    + Cardinality({k \in DOMAIN wide : wide[k] = "True"})
    + Cardinality({k \in DOMAIN arm : arm[k] = "True"})
    + Cardinality({k \in DOMAIN kits : kits[k] = "True"})

SharedKeys ==
    DOMAIN smali \cup DOMAIN wide \cup DOMAIN arm \cup StrayKeys

\* during a session: a key no catalog has is left in a sub-record (the import
\* reads the keys of kits, never a value)
SetFlag(r) ==
    /\ DirtyShared < MaxDirty
    /\ \/ \E which \in {"smali", "wide", "arm"}, key \in StrayKeys :
            SetShared(r, which, key)
       \/ \E key \in StrayKitKeys : SetKit(r, key)

Next ==
    \/ \E r \in Importers : Construct(r)
    \/ \E r \in Importers : Reset(r)
    \/ \E r \in Importers, c \in StatusCodes, v \in BOOLEAN : Import(r, c, v)
    \/ \E r \in Importers, c \in StatusCodes, v \in BOOLEAN :
         ConstructImportMode(r, c, v)
    \/ \E tracker \in Trackers : ImportTracker(tracker)
    \/ ImportEnd
    \/ \E r \in Importers : SetFlag(r)

Spec == Init /\ [][Next]_vars

\* ------------------------------------------- populating a single record
\* what external code stores in place of a default value
PopulatedScalars ==
    [file_nb_classes |-> 7, file_nb_dir |-> 7, file_size |-> 7,
     file_small |-> TRUE, filetype |-> "APK", file_innerzips |-> TRUE]

PopulatedValue(default) ==
    CASE default = "False" -> "True"
      [] default = "None" -> "'x'"
      [] default = "[]" -> "['x']"
      [] default = "0" -> "7"
      [] OTHER -> "'fr'"

\* number of fields that hold something else than clear_fields puts there
Populated ==
    LET of(r) ==
          Cardinality({f \in ScalarFields :
                         recs[r].scalars[f] # DefaultScalars[f]})
          + Cardinality({k \in DOMAIN recs[r].certificate :
                           recs[r].certificate[k] # DefaultCertificate[k]})
          + Cardinality({k \in DOMAIN recs[r].manifest :
                           recs[r].manifest[k] # DefaultManifest[k]})
          + Cardinality({k \in DOMAIN recs[r].dex :
                           recs[r].dex[k] # DefaultDex[k]})
        RECURSIVE sum(_)
        sum(n) == IF n = 0 THEN 0 ELSE of(n) + sum(n - 1)
    IN  DirtyShared + sum(NumRecords)

\* r.file_size = 7 and the like
PopulateScalar(r, f) ==
    /\ Ready /\ recs[r].exists /\ Populated < MaxPopulated
    /\ recs' = [recs EXCEPT ![r].scalars[f] = PopulatedScalars[f]]
    /\ last' = Did("set", r, "ok", <<>>, kitFile)
    /\ UNCHANGED <<smaliFile, wideFile, armFile, kitFile, smali, wide, arm,
                   kits, imp, exited>>

\* r.certificate[k] = ..., r.manifest[k] = ..., r.dex[k] = ...
PopulateDict(r, which, k) ==
    /\ Ready /\ recs[r].exists /\ Populated < MaxPopulated
    /\ k \in DOMAIN recs[r][which]
    /\ recs' = [recs EXCEPT ![r][which][k] = PopulatedValue(@)]
    /\ last' = Did("set", r, "ok", <<>>, kitFile)
    /\ UNCHANGED <<smaliFile, wideFile, armFile, kitFile, smali, wide, arm,
                   kits, imp, exited>>

PopulateShared(r) ==
    /\ Populated < MaxPopulated
    /\ \/ \E which \in {"smali", "wide", "arm"}, key \in SharedKeys :
            SetShared(r, which, key)
       \/ \E key \in DOMAIN kits \cup StrayKitKeys : SetKit(r, key)

DictKeys ==
    DOMAIN DefaultCertificate \cup DOMAIN DefaultManifest \cup DOMAIN DefaultDex

NextRecords ==
    \/ \E r \in Records : Construct(r)
    \/ \E r \in Records : Reset(r)
    \/ \E r \in Records, f \in ScalarFields : PopulateScalar(r, f)
    \/ \E r \in Records, which \in {"certificate", "manifest", "dex"},
          k \in DictKeys : PopulateDict(r, which, k)
    \/ \E r \in Records : PopulateShared(r)

SpecRecords == InitRecords /\ [][NextRecords]_vars

\* ------------------------------------------------------------ properties
\* a clear_fields call that returned, on an instance built with import mode off
AfterReset == last.op \in {"construct", "reset"} /\ last.outcome = "ok"

\* an import that ran to its end
AfterImport == last.op = "import" /\ last.outcome = "ok"

\* the sections a text shows: one per header line, with the pattern its
\* block ends up with (keyed tells whether the block has one at all)
SectionsOf(file) ==
    LET blocks == Blocks(file.lines)
    IN  [i \in DOMAIN blocks |->
            [name |-> blocks[i].name,
             keyed |-> HasOption(blocks[i].options, "pattern"),
             pattern |-> IF HasOption(blocks[i].options, "pattern")
                         THEN OptionValue(blocks[i].options, "pattern")
                         ELSE <<>>]]

\* the sections of the kit catalog file, those the import just finished
\* found in it, and the positions of those it appended
FileSections == SectionsOf(kitFile)
FileBefore == SectionsOf(last.before)
Appended == (Len(FileBefore) + 1)..Len(FileSections)

UsableFragments(pattern) == {f \in Range(SplitPipe(pattern)) : ~IsNoise(f)}

SmaliExtras == {"packed", "multidex"}
WideExtras == {"app_name", "phonenumbers", "urls", "base64_strings",
               "apk_zip_url"}

\* C1: after a reset every field of the record is at its documented default:
\* the scalars, certificate, manifest and dex hold their defaults, every
\* catalog-derived flag is false, the list-typed extras are empty lists,
\* wide.app_name is null, smali.packed and wide.apk_zip_url are false.
C1_ResetRestoresDefaults ==
    AfterReset =>
        /\ recs[last.rec].scalars = DefaultScalars
        /\ recs[last.rec].certificate = DefaultCertificate
        /\ recs[last.rec].manifest = DefaultManifest
        /\ recs[last.rec].dex = DefaultDex
        /\ \A k \in Range(smaliFile) \ SmaliExtras : smali[k] = "False"
        /\ \A k \in Range(wideFile) \ WideExtras : wide[k] = "False"
        /\ \A k \in Range(armFile) : arm[k] = "False"
        /\ \A k \in Range(get_sections(Load(kitFile))) : kits[k] = "False"
        /\ smali["multidex"] = "[]" /\ smali["packed"] = "False"
        /\ wide["phonenumbers"] = "[]" /\ wide["urls"] = "[]"
        /\ wide["base64_strings"] = "[]"
        /\ wide["app_name"] = "None" /\ wide["apk_zip_url"] = "False"

\* C2: right after a reset the keys of each dynamic sub-record are exactly
\* the section names its catalog file holds at that moment plus the
\* category's fixed extras; nothing older survives.
C2_KeysAfterReset ==
    AfterReset =>
        /\ DOMAIN smali = Range(smaliFile) \cup SmaliExtras
        /\ DOMAIN wide = Range(wideFile) \cup WideExtras
        /\ DOMAIN arm = Range(armFile)
        /\ DOMAIN kits = Range(get_sections(Load(kitFile)))

\* a reset has just picked up a section that an import appended to the file
C2_ResetSeesImportedSection ==
    /\ last.op = "reset" /\ last.outcome = "ok"
    /\ \E block \in Range(Blocks(kitFile.lines)) :
         /\ HasOption(block.options, "description")
         /\ OptionValue(block.options, "description") # <<"local">>
         /\ block.name \in DOMAIN kits

\* C3: an import appends no section for a tracker one of whose usable
\* fragments, at whatever position, was registered in the kit catalog.
C3_NoDuplicateDetector ==
    AfterImport =>
        \A i \in Appended :
            \A f \in UsableFragments(FileSections[i].pattern) :
                ~is_pattern_present(FileBefore, f)

\* C4: every tracker the import took as new has, after the import, a section
\* of its canonical name holding its canonical pattern; and at most one
\* section is appended per tracker.
C4_AcceptedIsWritten ==
    AfterImport =>
        /\ \A a \in Range(last.accepted) :
               \E i \in DOMAIN FileSections :
                   /\ FileSections[i].name = a.name
                   /\ FileSections[i].keyed
                   /\ FileSections[i].pattern = a.pattern
        /\ Cardinality(Appended) <= Len(last.accepted)

\* C5: a tracker whose signature holds no character of [a-zA-Z0-9_] gets no
\* section: no appended pattern is free of such characters.
C5_NoiseIsSkipped ==
    AfterImport =>
        \A i \in Appended :
            FileSections[i].keyed =>
                KeepChars(FileSections[i].pattern, NameChars \cup {"_"}) # <<>>

\* C6: an import only appends, and a tracker whose canonical name is already
\* a section of the file while none of its fragments is registered there
\* adds nothing.
C6_OnlyAppends ==
    [][LET old == SectionsOf(kitFile)
           new == SectionsOf(kitFile')
       IN  /\ Len(old) <= Len(new)
           /\ SubSeq(new, 1, Len(old)) = old
           /\ \A i \in (Len(old) + 1)..Len(new) :
                ~ /\ has_section(old, new[i].name)
                  /\ \A f \in UsableFragments(new[i].pattern) :
                         ~is_pattern_present(old, f)]_vars

\* C7: an import that ends early (status not 200, unparsable text, an
\* exception while a tracker is processed) leaves the kit catalog file as it
\* was.
C7_AbortWritesNothing ==
    [][(last'.op = "import" /\ last'.outcome # "ok") => kitFile' = kitFile]_vars

\* an import was stopped by an exception after it had taken a tracker as new
C7_AbortAfterAccepting ==
    /\ last.op = "import"
    /\ last.outcome \in {"KeyError", "NoSectionError", "ValueError"}
    /\ Len(last.accepted) > 0

\* C8: section names are unique within the kit catalog file.
C8_UniqueSectionNames ==
    \A i, j \in DOMAIN FileSections :
        FileSections[i].name = FileSections[j].name => i = j

\* C9: no "|"-separated fragment of a pattern in the kit catalog file is
\* empty once the characters outside [a-zA-Z0-9/_] are removed.
C9_FragmentsNonEmpty ==
    \A i \in DOMAIN FileSections :
        FileSections[i].keyed =>
            \A f \in Range(SplitPipe(FileSections[i].pattern)) : ~IsNoise(f)

\* what instance q shows: its own attributes and the four dictionaries it
\* reaches through the class
View(q) ==
    [own |-> recs[q], smali |-> smali, wide |-> wide, arm |-> arm,
     kits |-> kits]

\* C10: building or resetting one instance, or setting a flag through it,
\* changes nothing another existing instance shows.
C10_PerInstanceState ==
    [][\A q \in Records :
         (/\ last'.op \in {"construct", "reset", "set"}
          /\ last' # last
          /\ q # last'.rec
          /\ recs[q].exists)
         => View(q)' = View(q)]_vars

====
